---------------------------- MODULE Spec2Model ----------------------------
(***************************************************************************)
(* Model of snips_nlu/intent_classifier/featurizer.py: the Featurizer of   *)
(* the intent classifier (entity lexicon, query preprocessing, TF-IDF      *)
(* vectorizer state, chi2 feature selection with stop-word demotion, and   *)
(* the to_dict / from_dict snapshot).                                      *)
(*                                                                         *)
(* Representation.  A Python str is a sequence of one-character strings,   *)
(* so that tokenizing, joining, lower-casing and stemming are computed.    *)
(* An optional value is a sequence of length 0 (None) or 1 (the value).    *)
(* A real number the code only stores, compares or copies is kept in an    *)
(* exact symbolic form: a p-value is an integer number of tenths, an IDF   *)
(* weight ln((1+n)/(1+df))+1 is the reduced fraction (1+n)/(1+df).         *)
(***************************************************************************)
EXTENDS Integers, Sequences, FiniteSets, TLC

VARIABLES
  fz,        \* the Featurizer instance under observation (its attributes)
  clusters,  \* the module global CLUSTER_USED_PER_LANGUAGES
  result,    \* the outcome of the last call: what it returned or raised
  lastFit    \* the dataset and queries of the last fit call on fz

vars == <<fz, clusters, result, lastFit>>

(***************************************************************************)
(* Bounds of the model.                                                    *)
(***************************************************************************)
MaxQueries == 1           \* longest query list handed to fit
MaxTransformQueries == 1  \* longest query list handed to transform

(***************************************************************************)
(* Python values.                                                          *)
(***************************************************************************)
None == <<>>
Some(x) == <<x>>
IsNone(o) == o = <<>>
Val(o) == o[1]

Range(s) == {s[i] : i \in 1..Len(s)}

(***************************************************************************)
(* Strings: order, join, sort.                                             *)
(***************************************************************************)
\* Code point order of the characters the model uses.
CharRank(c) ==
  CASE c = " " -> 0 [] c = "1" -> 1 [] c = "A" -> 2 [] c = "B" -> 3 [] c = "X" -> 4
    [] c = "a" -> 10 [] c = "b" -> 11 [] c = "c" -> 12 [] c = "e" -> 14
    [] c = "f" -> 15 [] c = "i" -> 18 [] c = "n" -> 23 [] c = "r" -> 27
    [] c = "s" -> 28 [] c = "t" -> 29 [] c = "u" -> 30 [] c = "x" -> 33
    [] c = "y" -> 34 [] OTHER -> 40

RECURSIVE StrLess(_, _)
StrLess(s, t) ==
  IF t = <<>> THEN FALSE
  ELSE IF s = <<>> THEN TRUE
  ELSE IF Head(s) = Head(t) THEN StrLess(Tail(s), Tail(t))
  ELSE CharRank(Head(s)) < CharRank(Head(t))

RECURSIVE Join(_, _)
Join(strs, sep) ==
  IF strs = <<>> THEN <<>>
  ELSE IF Len(strs) = 1 THEN strs[1]
  ELSE strs[1] \o sep \o Join(Tail(strs), sep)

RECURSIVE Insert(_, _)
Insert(x, sorted) ==
  IF sorted = <<>> THEN <<x>>
  ELSE IF StrLess(x, Head(sorted)) THEN <<x>> \o sorted
  ELSE <<Head(sorted)>> \o Insert(x, Tail(sorted))

\* Python's sorted() on a list of str (duplicates kept).
RECURSIVE Sorted(_)
Sorted(strs) ==
  IF strs = <<>> THEN <<>> ELSE Insert(Head(strs), Sorted(Tail(strs)))

\* sorted() of a set of str.
RECURSIVE SortedSet(_)
SortedSet(S) ==
  IF S = {} THEN <<>>
  ELSE LET x == CHOOSE y \in S : \A z \in S : z = y \/ StrLess(y, z)
       IN <<x>> \o SortedSet(S \ {x})

(***************************************************************************)
(* External collaborators (spec section 6).                                *)
(***************************************************************************)
Languages == {"en", "ja"}

\* tokenize_light(text, language): split on white space, no empty token.
RECURSIVE SplitSpaces(_, _, _)
SplitSpaces(s, cur, acc) ==
  IF s = <<>> THEN (IF cur = <<>> THEN acc ELSE Append(acc, cur))
  ELSE IF Head(s) = " "
       THEN SplitSpaces(Tail(s), <<>>, IF cur = <<>> THEN acc ELSE Append(acc, cur))
       ELSE SplitSpaces(Tail(s), Append(cur, Head(s)), acc)

tokenize_light(text, language) == SplitSpaces(text, <<>>, <<>>)

\* str.lower()
LowerChar(c) ==
  CASE c = "A" -> "a" [] c = "B" -> "b" [] c = "X" -> "x" [] OTHER -> c
Lower(s) == [i \in 1..Len(s) |-> LowerChar(s[i])]

\* normalize(text): language-agnostic folding (lower-casing).
normalize(text) == Lower(text)

\* Languages for which stemming resources exist; stem raises UnknownResource
\* for the others.
StemLanguages == {"en"}

\* The stem of one token: a plural loses its final "s".
StemToken(t) ==
  IF Len(t) > 1 /\ t[Len(t)] = "s" THEN SubSeq(t, 1, Len(t) - 1) ELSE t

\* stem(text, language): the stems of the tokens of text, space-joined.
stem(text, language) ==
  LET tokens == tokenize_light(text, language)
  IN Join([i \in 1..Len(tokens) |-> StemToken(tokens[i])], <<" ">>)

\* get_default_sep(language)
get_default_sep(language) == IF language = "ja" THEN <<>> ELSE <<" ">>

\* get_stop_words(language)
get_stop_words(language) == IF language = "en" THEN {<<"a">>, <<"b">>} ELSE {}

\* get_word_clusters(language): cluster name -> (token -> cluster label)
ClusterNames == {"c"}
get_word_clusters(language) ==
  [name \in ClusterNames |-> [k \in {<<"b", "s">>} |-> <<"1">>]]

\* is_builtin_entity(entity_name)
BuiltinEntityNames == {<<"s", "n">>}
is_builtin_entity(entity_name) == entity_name \in BuiltinEntityNames

\* get_all_ngrams(tokens): every contiguous run of tokens, space-joined, by
\* start then end.
NgramsFrom(tokens, start) ==
  [k \in 1..(Len(tokens) - start + 1) |->
     Join(SubSeq(tokens, start, start + k - 1), <<" ">>)]

RECURSIVE NgramsUpTo(_, _)
NgramsUpTo(tokens, start) ==
  IF start > Len(tokens) THEN <<>>
  ELSE NgramsFrom(tokens, start) \o NgramsUpTo(tokens, start + 1)

get_all_ngrams(tokens) == NgramsUpTo(tokens, 1)


(***************************************************************************)
(* featurizer.py: module-level helpers.                                    *)
(***************************************************************************)
\* "entityfeature"
ENTITY_FEATURE_PREFIX ==
  <<"e", "n", "t", "i", "t", "y", "f", "e", "a", "t", "u", "r", "e">>

_entity_name_to_feature(entity_name, language) ==
  ENTITY_FEATURE_PREFIX \o Join(tokenize_light(entity_name, language), <<>>)

_normalize_stem(text, language) ==
  LET normalized_stemmed == normalize(text)
  IN IF language \in StemLanguages
     THEN stem(normalized_stemmed, language)
     ELSE normalized_stemmed      \* except UnknownResource: pass

\* The cluster labels of the lower-cased n-grams, in n-gram order.
RECURSIVE ClusterLabels(_, _)
ClusterLabels(ngrams, cluster) ==
  IF ngrams = <<>> THEN <<>>
  ELSE (IF Lower(Head(ngrams)) \in DOMAIN cluster
        THEN <<cluster[Lower(Head(ngrams))]>> ELSE <<>>)
       \o ClusterLabels(Tail(ngrams), cluster)

\* The lookup without lower-casing the n-gram.
ClusterLabelsCaseSensitive(query_tokens, language) ==
  IF language \notin DOMAIN clusters THEN <<>>
  ELSE LET cluster == get_word_clusters(language)[clusters[language]]
           ngrams == get_all_ngrams(query_tokens)
       IN SelectSeq(ngrams, LAMBDA g : g \in DOMAIN cluster)

_get_word_cluster_features(query_tokens, language) ==
  IF language \notin DOMAIN clusters THEN <<>>
  ELSE ClusterLabels(get_all_ngrams(query_tokens),
                     get_word_clusters(language)[clusters[language]])

\* entity_features += lexicon.get(ngram, []) for every n-gram in order; the
\* values are sets, taken here in sorted order (the only caller sorts the
\* whole list).
RECURSIVE EntityLabels(_, _)
EntityLabels(ngrams, entity_utterances_to_entity_names) ==
  IF ngrams = <<>> THEN <<>>
  ELSE (IF Head(ngrams) \in DOMAIN entity_utterances_to_entity_names
        THEN SortedSet(entity_utterances_to_entity_names[Head(ngrams)])
        ELSE <<>>)
       \o EntityLabels(Tail(ngrams), entity_utterances_to_entity_names)

_get_dataset_entities_features(normalized_stemmed_tokens, entity_utterances_to_entity_names) ==
  EntityLabels(get_all_ngrams(normalized_stemmed_tokens),
               entity_utterances_to_entity_names)

_preprocess_query(query, language, entity_utterances_to_features_names) ==
  LET query_tokens == tokenize_light(query, language)
      word_clusters_features ==
        _get_word_cluster_features(query_tokens, language)
      normalized_stemmed_tokens ==
        [i \in 1..Len(query_tokens) |-> _normalize_stem(query_tokens[i], language)]
      entities_features ==
        _get_dataset_entities_features(normalized_stemmed_tokens,
                                       entity_utterances_to_features_names)
      features == Join(normalized_stemmed_tokens, get_default_sep(language))
      features2 == IF entities_features # <<>>
                   THEN features \o <<" ">> \o Join(Sorted(entities_features), <<" ">>)
                   ELSE features
  IN IF word_clusters_features # <<>>
     THEN features2 \o <<" ">> \o Join(Sorted(word_clusters_features), <<" ">>)
     ELSE features2

\* A dataset is [entities |-> (entity name -> set of example utterances)].
NonBuiltinEntities(dataset) ==
  {e \in DOMAIN dataset.entities : ~is_builtin_entity(e)}

_get_utterances_to_features_names(dataset, language) ==
  LET names == NonBuiltinEntities(dataset)
      utterances == UNION {dataset.entities[e] : e \in names}
  IN [u \in utterances |->
        {_entity_name_to_feature(e, language) :
           e \in {n \in names : u \in dataset.entities[n]}}]

(***************************************************************************)
(* The TF-IDF vectorizer (sklearn TfidfVectorizer with the light tokenizer *)
(* and the options of FeaturizerConfig).  Its weighting lives in its       *)
(* transformer _tfidf: the sublinear_tf option and the fitted _idf_diag.   *)
(***************************************************************************)
\* FeaturizerConfig and its to_dict / from_dict.
Configs == [sublinear_tf : BOOLEAN]
ConfigToDict(config) == [sublinear_tf |-> config.sublinear_tf]
ConfigFromDict(config_dict) == [sublinear_tf |-> config_dict.sublinear_tf]

\* TfidfTransformer(sublinear_tf=...), not fitted.
TfidfTransformer(sublinear_tf) ==
  [sublinear_tf |-> sublinear_tf, _idf_diag |-> None]

_get_tfidf_vectorizer(language, extra_args) ==
  [language |-> language,
   vocabulary_ |-> None,
   _tfidf |-> TfidfTransformer(extra_args.sublinear_tf)]

\* The analyzer: lower-case the document, then tokenize it.
DocTokens(doc, language) == tokenize_light(Lower(doc), language)

TermCount(tokens, term) == Cardinality({i \in 1..Len(tokens) : tokens[i] = term})

RECURSIVE IndexIn(_, _)
IndexIn(x, seq) == IF Head(seq) = x THEN 0 ELSE 1 + IndexIn(x, Tail(seq))

\* vocabulary_: term -> column, the columns in sorted term order.
BuildVocabulary(docs, language) ==
  LET terms == UNION {Range(DocTokens(docs[d], language)) : d \in 1..Len(docs)}
      order == SortedSet(terms)
  IN [t \in terms |-> IndexIn(t, order)]

RECURSIVE GCD(_, _)
GCD(a, b) == IF b = 0 THEN a ELSE GCD(b, a % b)

\* The smoothed IDF weight ln((1 + n_docs) / (1 + df)) + 1, as the reduced
\* fraction under the logarithm.
SmoothIdf(n_docs, df) ==
  LET g == GCD(1 + n_docs, 1 + df)
  IN <<(1 + n_docs) \div g, (1 + df) \div g>>

\* The term of a column.
TermOf(vocabulary, column) == CHOOSE t \in DOMAIN vocabulary : vocabulary[t] = column

\* _idf_diag.data after fitting on docs: one weight per column.
BuildIdf(docs, language, vocabulary) ==
  LET df(t) == Cardinality({d \in 1..Len(docs) : t \in Range(DocTokens(docs[d], language))})
  IN [j \in 1..Cardinality(DOMAIN vocabulary) |->
        SmoothIdf(Len(docs), df(TermOf(vocabulary, j - 1)))]

\* tfidf_vectorizer.fit_transform(docs): the fitted vectorizer (the matrix
\* it returns only feeds chi2).
VectorizerFit(vectorizer, docs) ==
  LET vocabulary == BuildVocabulary(docs, vectorizer.language)
  IN [vectorizer EXCEPT
        !.vocabulary_ = Some(vocabulary),
        !._tfidf._idf_diag = Some(BuildIdf(docs, vectorizer.language, vocabulary))]

(***************************************************************************)
(* Featurizer.__init__                                                     *)
(***************************************************************************)
\* pvalue_threshold=0.4, in tenths
DEFAULT_PVALUE_THRESHOLD == 4

Featurizer(language, unknown_words_replacement_string, config, tfidf_vectorizer, best_features, entity_utterances_to_feature_names, pvalue_threshold) ==
  [config |-> config,
   language |-> language,
   tfidf_vectorizer |->
     IF IsNone(tfidf_vectorizer)
     THEN _get_tfidf_vectorizer(language, ConfigToDict(config))
     ELSE Val(tfidf_vectorizer),
   best_features |-> best_features,
   pvalue_threshold |-> pvalue_threshold,
   entity_utterances_to_feature_names |-> entity_utterances_to_feature_names,
   unknown_words_replacement_string |-> unknown_words_replacement_string]

(***************************************************************************)
(* Featurizer.fit                                                          *)
(***************************************************************************)
\* The lexicon with the unknown-word sentinel left in.
FitEntityLexiconKeepingUnknown(dataset, language, unknown_words_replacement_string) ==
  LET utterances_to_features == _get_utterances_to_features_names(dataset, language)
      keys == {_normalize_stem(k, language) : k \in DOMAIN utterances_to_features}
  IN [n \in keys |->
        UNION {utterances_to_features[k] :
                 k \in {u \in DOMAIN utterances_to_features :
                          _normalize_stem(u, language) = n}}]

\* Lines 49-61: the entity lexicon, keyed by normalized and stemmed
\* utterance, without the unknown-word sentinel.
FitEntityLexicon(dataset, language, unknown_words_replacement_string) ==
  LET utterances_to_features == _get_utterances_to_features_names(dataset, language)
      keys == {_normalize_stem(k, language) : k \in DOMAIN utterances_to_features}
      normalized_utterances_to_features ==
        [n \in keys |->
           UNION {utterances_to_features[k] :
                    k \in {u \in DOMAIN utterances_to_features :
                             _normalize_stem(u, language) = n}}]
      kept == IF /\ ~IsNone(unknown_words_replacement_string)
                 /\ Val(unknown_words_replacement_string) \in keys
              THEN keys \ {Val(unknown_words_replacement_string)}
              ELSE keys
  IN [n \in kept |-> normalized_utterances_to_features[n]]

\* The check on the raw queries, not on their tokens.
AllQueriesBlank(queries, language) == \A i \in 1..Len(queries) : queries[i] = <<>>

\* Line 63: every query tokenizes to nothing.
AllQueriesEmpty(queries, language) ==
  \A i \in 1..Len(queries) : Join(tokenize_light(queries[i], language), <<>>) = <<>>

\* The members of a set of columns in ascending order, from column i on.
RECURSIVE Ascending(_, _, _)
Ascending(S, i, n) ==
  IF i >= n THEN <<>>
  ELSE (IF i \in S THEN <<i>> ELSE <<>>) \o Ascending(S, i + 1, n)

\* Lines 76-77
BelowThreshold(pval, pvalue_threshold) ==
  Ascending({i \in DOMAIN pval : pval[i] < pvalue_threshold}, 0,
            Cardinality(DOMAIN pval))

\* Only the first column of minimum p-value.
FirstMinimumPValue(pval) ==
  <<CHOOSE i \in DOMAIN pval :
      /\ \A j \in DOMAIN pval : pval[i] <= pval[j]
      /\ \A j \in DOMAIN pval : pval[j] = pval[i] => i <= j>>

\* Lines 79-80
MinimumPValue(pval) ==
  Ascending({i \in DOMAIN pval : \A j \in DOMAIN pval : pval[i] <= pval[j]}, 0,
            Cardinality(DOMAIN pval))

\* list.remove(x): without the first occurrence of x.
RECURSIVE ListRemove(_, _)
ListRemove(list, x) ==
  IF list = <<>> THEN <<>>
  ELSE IF Head(list) = x THEN Tail(list)
  ELSE <<Head(list)>> \o ListRemove(Tail(list), x)

\* Line 87-88: the column is a stop word with a p-value above half the
\* threshold (pval > threshold / 2.0).
IsDemoted(feat, vocabulary, pval, pvalue_threshold, stop_words) ==
  /\ TermOf(vocabulary, feat) \in stop_words
  /\ 2 * pval[feat] > pvalue_threshold

\* The loop run over best_features itself while it removes from it: the list
\* iterator goes by position, and skips the member after a removed one.
RECURSIVE DemoteInPlace(_, _, _, _, _, _)
DemoteInPlace(position, best_features, vocabulary, pval, pvalue_threshold, stop_words) ==
  IF position > Len(best_features) THEN best_features
  ELSE DemoteInPlace(
         position + 1,
         IF IsDemoted(best_features[position], vocabulary, pval, pvalue_threshold, stop_words)
         THEN ListRemove(best_features, best_features[position])
         ELSE best_features,
         vocabulary, pval, pvalue_threshold, stop_words)

DemoteStopWordsWhileIterating(feature_names, best_features, vocabulary, pval, pvalue_threshold, stop_words) ==
  DemoteInPlace(1, best_features, vocabulary, pval, pvalue_threshold, stop_words)

\* Lines 86-89: the loop runs over the keys of feature_names, a dict filled
\* from best_features before the loop, and removes from best_features.
RECURSIVE DemoteStopWords(_, _, _, _, _, _)
DemoteStopWords(feature_names, best_features, vocabulary, pval, pvalue_threshold, stop_words) ==
  IF feature_names = <<>> THEN best_features
  ELSE DemoteStopWords(
         Tail(feature_names),
         IF IsDemoted(Head(feature_names), vocabulary, pval, pvalue_threshold, stop_words)
         THEN ListRemove(best_features, Head(feature_names))
         ELSE best_features,
         vocabulary, pval, pvalue_threshold, stop_words)

\* Lines 73-89: best_features from the p-values of chi2.
SelectBestFeatures(vocabulary, pval, pvalue_threshold, language) ==
  LET below == BelowThreshold(pval, pvalue_threshold)
      best_features == IF below = <<>> THEN MinimumPValue(pval) ELSE below
  IN DemoteStopWords(best_features, best_features, vocabulary, pval,
                     pvalue_threshold, get_stop_words(language))

(***************************************************************************)
(* Featurizer.preprocess_queries and Featurizer.transform                  *)
(***************************************************************************)
Raised(kind) == [raised |-> kind]
Returned(value) == [raised |-> "", value |-> value]

\* Lines 104-110.  With no lexicon (entity_utterances_to_feature_names is
\* None) the lookup of the first n-gram raises AttributeError.
preprocess_queries(self, queries) ==
  IF /\ IsNone(self.entity_utterances_to_feature_names)
     /\ \E i \in 1..Len(queries) : tokenize_light(queries[i], self.language) # <<>>
  THEN Raised("AttributeError")
  ELSE Returned(
         [i \in 1..Len(queries) |->
            _preprocess_query(
              queries[i], self.language,
              IF IsNone(self.entity_utterances_to_feature_names)
              THEN <<>> ELSE Val(self.entity_utterances_to_feature_names))])

\* The term-frequency factor of a count: tf, or 1 + ln(tf) under
\* sublinear_tf (which is tf when tf = 1).
TfFactor(count, sublinear_tf) ==
  IF sublinear_tf /\ count > 1 THEN <<"1+ln", count>> ELSE <<"tf", count>>

ZeroCell == [zero |-> TRUE]

\* One row of TfidfTransformer.transform: tf factor times IDF weight per
\* column, then the row divided by its L2 norm.  A row whose non-zero tf
\* factors are all equal has the same direction whatever that factor is, so
\* the factor is then 1.  A non-zero cell is kept as its weight and the row
\* whose norm divides it.
TfidfRow(tokens, vocabulary, transformer) ==
  LET n == Cardinality(DOMAIN vocabulary)
      count(j) == TermCount(tokens, TermOf(vocabulary, j - 1))
      factors == {TfFactor(count(j), transformer.sublinear_tf) :
                    j \in {k \in 1..n : count(k) > 0}}
      factor(j) == IF Cardinality(factors) = 1 THEN <<"tf", 1>>
                   ELSE TfFactor(count(j), transformer.sublinear_tf)
      weighted == [j \in 1..n |->
                     IF count(j) = 0 THEN ZeroCell
                     ELSE [zero |-> FALSE, tf |-> factor(j),
                           idf |-> Val(transformer._idf_diag)[j]]]
  IN [j \in 1..n |->
        IF count(j) = 0 THEN ZeroCell
        ELSE [zero |-> FALSE, weight |-> weighted[j], norm_of |-> weighted]]

\* tfidf_vectorizer.transform(docs)
VectorizerTransform(vectorizer, docs) ==
  IF IsNone(vectorizer.vocabulary_) \/ IsNone(vectorizer._tfidf._idf_diag)
  THEN Raised("NotFittedError")
  ELSE IF Len(Val(vectorizer._tfidf._idf_diag))
            # Cardinality(DOMAIN Val(vectorizer.vocabulary_))
  THEN Raised("ValueError")
  ELSE Returned(
         [d \in 1..Len(docs) |->
            TfidfRow(DocTokens(docs[d], vectorizer.language),
                     Val(vectorizer.vocabulary_), vectorizer._tfidf)])

\* Lines 93-99: X_train_tfidf[:, self.best_features]
transform(self, queries) ==
  LET preprocessed_queries == preprocess_queries(self, queries)
  IN IF preprocessed_queries.raised # "" THEN preprocessed_queries
     ELSE LET X_train_tfidf ==
                VectorizerTransform(self.tfidf_vectorizer, preprocessed_queries.value)
          IN IF X_train_tfidf.raised # "" THEN X_train_tfidf
             ELSE IF IsNone(self.best_features) THEN Raised("IndexError")
             ELSE LET best == Val(self.best_features)
                      n == Cardinality(DOMAIN Val(self.tfidf_vectorizer.vocabulary_))
                  IN IF \E k \in 1..Len(best) : best[k] >= n
                     THEN Raised("IndexError")
                     ELSE Returned(
                            [d \in 1..Len(queries) |->
                               [k \in 1..Len(best) |->
                                  X_train_tfidf.value[d][best[k] + 1]]])

(***************************************************************************)
(* Featurizer.to_dict and Featurizer.from_dict                             *)
(***************************************************************************)
\* Lines 112-144.  list(v) of a set is taken in sorted order.
to_dict(self) ==
  LET fitted == ~IsNone(self.tfidf_vectorizer.vocabulary_)
      lexicon == Val(self.entity_utterances_to_feature_names)
  IN [language_code |-> self.language,
      tfidf_vectorizer |->
        [vocab |-> self.tfidf_vectorizer.vocabulary_,
         idf_diag |-> IF fitted THEN self.tfidf_vectorizer._tfidf._idf_diag ELSE None],
      best_features |-> self.best_features,
      pvalue_threshold |-> self.pvalue_threshold,
      entity_utterances_to_feature_names |->
        IF fitted THEN [k \in DOMAIN lexicon |-> SortedSet(lexicon[k])] ELSE <<>>,
      config |-> ConfigToDict(self.config),
      unknown_words_replacement_string |-> self.unknown_words_replacement_string]

\* The stored IDF weights are not put back (line 265 left out).
DeserializeWithoutWeights(vectorizer_dict, language, featurizer_config) ==
  LET tfidf_vectorizer ==
        _get_tfidf_vectorizer(language, ConfigToDict(featurizer_config))
  IN IF "vocab" \notin DOMAIN vectorizer_dict THEN Raised("KeyError")
     ELSE IF IsNone(vectorizer_dict.vocab)
     THEN Returned([tfidf_vectorizer EXCEPT !._tfidf = TfidfTransformer(FALSE)])
     ELSE IF "idf_diag" \notin DOMAIN vectorizer_dict THEN Raised("KeyError")
     ELSE IF IsNone(vectorizer_dict.idf_diag) THEN Raised("TypeError")
     ELSE Returned(
            [tfidf_vectorizer EXCEPT
               !.vocabulary_ = vectorizer_dict.vocab,
               !._tfidf = TfidfTransformer(FALSE)])

\* Lines 251-267.  The vectorizer is built with the config, and its
\* transformer is then replaced by a TfidfTransformer() of default options
\* carrying the stored IDF weights.
_deserialize_tfidf_vectorizer(vectorizer_dict, language, featurizer_config) ==
  LET tfidf_vectorizer ==
        _get_tfidf_vectorizer(language, ConfigToDict(featurizer_config))
      tfidf_transformer == TfidfTransformer(FALSE)
  IN IF "vocab" \notin DOMAIN vectorizer_dict THEN Raised("KeyError")
     ELSE IF IsNone(vectorizer_dict.vocab)
     THEN Returned([tfidf_vectorizer EXCEPT !._tfidf = tfidf_transformer])
     ELSE IF "idf_diag" \notin DOMAIN vectorizer_dict THEN Raised("KeyError")
     ELSE IF IsNone(vectorizer_dict.idf_diag) THEN Raised("TypeError")
     ELSE Returned(
            [tfidf_vectorizer EXCEPT
               !.vocabulary_ = vectorizer_dict.vocab,
               !._tfidf = [tfidf_transformer EXCEPT
                             !._idf_diag = vectorizer_dict.idf_diag]])

SnapshotKeys ==
  {"language_code", "tfidf_vectorizer", "best_features", "pvalue_threshold",
   "entity_utterances_to_feature_names", "config",
   "unknown_words_replacement_string"}

\* Lines 146-171
from_dict(obj_dict) ==
  IF ~(SnapshotKeys \subseteq DOMAIN obj_dict) THEN Raised("KeyError")
  ELSE LET language == obj_dict.language_code
           config == ConfigFromDict(obj_dict.config)
           tfidf_vectorizer ==
             _deserialize_tfidf_vectorizer(obj_dict.tfidf_vectorizer, language, config)
           names == obj_dict.entity_utterances_to_feature_names
           entity_utterances_to_entity_names ==
             [k \in DOMAIN names |-> Range(names[k])]
       IN IF tfidf_vectorizer.raised # "" THEN tfidf_vectorizer
          ELSE Returned(
                 Featurizer(language, obj_dict.unknown_words_replacement_string,
                            config, Some(tfidf_vectorizer.value),
                            obj_dict.best_features,
                            Some(entity_utterances_to_entity_names),
                            obj_dict.pvalue_threshold))

(***************************************************************************)
(* Inputs.                                                                 *)
(***************************************************************************)
RECURSIVE SeqsUpTo(_, _)
\* The non-empty lists of at most n members of S.
SeqsUpTo(S, n) ==
  IF n = 0 THEN {}
  ELSE LET shorter == SeqsUpTo(S, n - 1)
       IN {<<x>> : x \in S} \cup {Append(q, x) : q \in shorter, x \in S}

\* Queries handed to fit: "  " tokenizes to nothing; in "a Bs", "a" is a stop
\* word of "en" and "Bs" is upper-cased, a plural (of the stop word "b") and a
\* cluster member.
FitQueryStrings == {<<" ", " ">>, <<"a", " ", "B", "s">>}
FitQueries == SeqsUpTo(FitQueryStrings, MaxQueries)

\* Queries handed to transform and preprocess_queries.
TransformQueryStrings ==
  {<<>>, <<"a", " ", "a", " ", "B", "s">>, <<"x", " ", "B", "s">>, <<"X", " ", "x">>}
TransformQueries == SeqsUpTo(TransformQueryStrings, MaxTransformQueries)

\* Datasets: entity name -> example utterances.  "sn" is a builtin entity.
Dataset1 ==
  [entities |-> [e \in {<<"t">>, <<"s", "n">>} |->
                   IF e = <<"t">> THEN {<<"B", "s">>} ELSE {<<"a">>}]]
Dataset2 ==
  [entities |-> [e \in {<<"t", " ", "x">>, <<"u">>} |->
                   IF e = <<"u">> THEN {<<"x">>, <<"b", "s">>} ELSE {<<"X">>}]]
Datasets == {Dataset1, Dataset2}

\* The p-values chi2 returns, in tenths: half the default threshold, between
\* half and the threshold, the threshold, and 1.0.
PValues == {2, 3, 4, 10}
\* Fewer of them, where only the resulting selection matters.
CoarsePValues == {2, 10}
\* Every column significant, for fit_transform.
SignificantPValues == {2}

UnknownWords == {None, Some(<<"b">>)}

\* CLUSTER_USED_PER_LANGUAGES: {} as the module sets it, or with a cluster
\* configured for "en".
ClusterSettings == {<<>>, [l \in {"en"} |-> "c"]}

(***************************************************************************)
(* The state machine.                                                      *)
(***************************************************************************)
Init ==
  /\ \E language \in Languages, config \in Configs, unknown \in UnknownWords :
       fz = Featurizer(language, unknown, config, None, None, None,
                       DEFAULT_PVALUE_THRESHOLD)
  /\ clusters = <<>>
  /\ result = [op |-> "__init__", raised |-> ""]
  /\ lastFit = None

\* Lines 48-64: fit as far as the empty-corpus check.
FitLexicon(self, dataset) ==
  [self EXCEPT !.entity_utterances_to_feature_names =
     Some(FitEntityLexicon(dataset, self.language,
                           self.unknown_words_replacement_string))]

\* Lines 65-71: the vectorizer fitted on the preprocessed queries.
FitVectorizer(self, queries) ==
  [self EXCEPT !.tfidf_vectorizer =
     VectorizerFit(self.tfidf_vectorizer, preprocess_queries(self, queries).value)]

\* Lines 73-91: the selection, given the p-values of chi2(X_train_tfidf, y).
FitSelection(self, pval) ==
  [self EXCEPT !.best_features =
     Some(SelectBestFeatures(Val(self.tfidf_vectorizer.vocabulary_), pval,
                             self.pvalue_threshold, self.language))]

Columns(self) == 0..(Cardinality(DOMAIN Val(self.tfidf_vectorizer.vocabulary_)) - 1)

\* A call that leaves the instance as it is (transform, preprocess_queries,
\* to_dict, from_dict) does not change what a following fit does: fit is taken
\* from the state before such a call, or once the rebuilt instance is in use.
Settled ==
  \/ result.op \in {"__init__", "fit", "fit_transform"}
  \/ result.op = "from_dict" /\ result.raised = "" /\ result.value = fz

\* fit(dataset, queries, y): y enters through the p-values of chi2 alone,
\* drawn from pvalues.
Fit(dataset, queries, pvalues) ==
  LET self1 == FitLexicon(fz, dataset)
  IN /\ Settled
     /\ lastFit' = Some([dataset |-> dataset, queries |-> queries])
     /\ clusters' = clusters
     /\ IF AllQueriesEmpty(queries, fz.language)
        THEN /\ fz' = self1
             /\ result' = [op |-> "fit", raised |-> "", returned |-> "None",
                           pval |-> None]
        ELSE LET self2 == FitVectorizer(self1, queries)
             IN \E pval \in [Columns(self2) -> pvalues] :
                  /\ fz' = FitSelection(self2, pval)
                  /\ result' = [op |-> "fit", raised |-> "", returned |-> "self",
                                pval |-> Some(pval)]

\* fit_transform(dataset, queries, y): self.fit(...).transform(queries); the
\* None an empty corpus makes fit return has no transform.
FitTransform(dataset, queries, pvalues) ==
  LET self1 == FitLexicon(fz, dataset)
  IN /\ Settled
     /\ lastFit' = Some([dataset |-> dataset, queries |-> queries])
     /\ clusters' = clusters
     /\ IF AllQueriesEmpty(queries, fz.language)
        THEN /\ fz' = self1
             /\ result' = [op |-> "fit_transform", queries |-> queries]
                            @@ Raised("AttributeError")
        ELSE LET self2 == FitVectorizer(self1, queries)
             IN \E pval \in [Columns(self2) -> pvalues] :
                  /\ fz' = FitSelection(self2, pval)
                  /\ result' = [op |-> "fit_transform", queries |-> queries]
                                 @@ transform(FitSelection(self2, pval), queries)

Transform(queries) ==
  /\ result' = [op |-> "transform", queries |-> queries] @@ transform(fz, queries)
  /\ UNCHANGED <<fz, clusters, lastFit>>

PreprocessQueries(queries) ==
  /\ result' = [op |-> "preprocess_queries", queries |-> queries]
                 @@ preprocess_queries(fz, queries)
  /\ UNCHANGED <<fz, clusters, lastFit>>

ToDict ==
  /\ result' = [op |-> "to_dict"] @@ Returned(to_dict(fz))
  /\ UNCHANGED <<fz, clusters, lastFit>>

\* Snapshots that are not what to_dict wrote: a key dropped, or an IDF
\* sequence one entry short.
WithoutKey(dict, key) == [k \in DOMAIN dict \ {key} |-> dict[k]]

Malformed(snapshot) ==
  {WithoutKey(snapshot, key) : key \in SnapshotKeys}
  \cup {[snapshot EXCEPT !.tfidf_vectorizer = WithoutKey(@, key)] :
          key \in {"vocab", "idf_diag"}}
  \cup (IF IsNone(snapshot.tfidf_vectorizer.vocab) THEN {}
        ELSE {[snapshot EXCEPT !.tfidf_vectorizer.idf_diag =
                 Some(Tail(Val(@)))]})

\* Featurizer.from_dict(d) on the dict to_dict just returned.
FromDict ==
  /\ result.op = "to_dict"
  /\ result' = [op |-> "from_dict", intact |-> TRUE] @@ from_dict(result.value)
  /\ UNCHANGED <<fz, clusters, lastFit>>

\* Featurizer.from_dict(d) on a malformed snapshot.
FromDictMalformed ==
  /\ result.op = "to_dict"
  /\ \E obj_dict \in Malformed(result.value) :
       result' = [op |-> "from_dict", intact |-> FALSE] @@ from_dict(obj_dict)
  /\ UNCHANGED <<fz, clusters, lastFit>>

\* The program goes on with the instance from_dict rebuilt from its own
\* snapshot: featurizer = Featurizer.from_dict(featurizer.to_dict()).
UseLoaded ==
  /\ result.op = "from_dict" /\ result.intact /\ result.raised = ""
  /\ fz' = result.value
  /\ UNCHANGED <<clusters, result, lastFit>>

Next ==
  \/ \E dataset \in Datasets, queries \in FitQueries :
       Fit(dataset, queries, CoarsePValues)
  \/ \E dataset \in Datasets, queries \in FitQueries :
       FitTransform(dataset, queries, SignificantPValues)
  \/ \E queries \in TransformQueries : Transform(queries)
  \/ ToDict
  \/ FromDict
  \/ FromDictMalformed
  \/ UseLoaded

Spec == Init /\ [][Next]_vars

(***************************************************************************)
(* fit on its own: one fit of a newly constructed instance, over every     *)
(* p-value vector.                                                         *)
(***************************************************************************)
NextFit ==
  \E dataset \in Datasets, queries \in FitQueries :
    lastFit = None /\ Fit(dataset, queries, PValues)

SpecFit == Init /\ [][NextFit]_vars

(***************************************************************************)
(* Preprocessing on its own: an instance constructed with a lexicon (or    *)
(* with none), under either setting of the cluster global.                 *)
(***************************************************************************)
Lexicons(language, unknown) ==
  {None} \cup {Some(FitEntityLexicon(dataset, language, unknown)) : dataset \in Datasets}

InitPreprocess ==
  /\ \E language \in Languages, unknown \in UnknownWords :
       \E lexicon \in Lexicons(language, unknown) :
         fz = Featurizer(language, unknown, [sublinear_tf |-> FALSE], None, None,
                         lexicon, DEFAULT_PVALUE_THRESHOLD)
  /\ clusters \in ClusterSettings
  /\ result = [op |-> "__init__", raised |-> ""]
  /\ lastFit = None

NextPreprocess == \E queries \in TransformQueries : PreprocessQueries(queries)

SpecPreprocess == InitPreprocess /\ [][NextPreprocess]_vars

(***************************************************************************)
(* Properties.                                                             *)
(***************************************************************************)
Vocabulary == Val(fz.tfidf_vectorizer.vocabulary_)
VocabularySize == Cardinality(DOMAIN Vocabulary)
BestFeatures == Val(fz.best_features)
FitReturnedSelf == result.op = "fit" /\ result.returned = "self"
ChiPValues == Val(result.pval)
IsStopWordColumn(i) == TermOf(Vocabulary, i) \in get_stop_words(fz.language)
StrictlyAscending(seq) == \A k \in 1..(Len(seq) - 1) : seq[k] < seq[k + 1]
SomeBelowThreshold == \E i \in DOMAIN ChiPValues : ChiPValues[i] < fz.pvalue_threshold
MinimumColumns == {i \in DOMAIN ChiPValues : \A j \in DOMAIN ChiPValues : ChiPValues[i] <= ChiPValues[j]}
DemotedColumns ==
  {i \in DOMAIN ChiPValues : IsStopWordColumn(i) /\ 2 * ChiPValues[i] > fz.pvalue_threshold}

\* C1: for a Featurizer F whose fit returned the instance,
\* from_dict(to_dict(F)) has the vocabulary, IDF weights, selected indices,
\* entity lexicon, language, threshold, config and sentinel of F, and its
\* transform equals F's on every query list.
C1_RoundTripTransform ==
  FitReturnedSelf =>
    LET G == from_dict(to_dict(fz))
    IN /\ G.raised = ""
       /\ G.value.tfidf_vectorizer.vocabulary_ = fz.tfidf_vectorizer.vocabulary_
       /\ G.value.tfidf_vectorizer._tfidf._idf_diag = fz.tfidf_vectorizer._tfidf._idf_diag
       /\ G.value.best_features = fz.best_features
       /\ G.value.entity_utterances_to_feature_names = fz.entity_utterances_to_feature_names
       /\ G.value.language = fz.language
       /\ G.value.pvalue_threshold = fz.pvalue_threshold
       /\ G.value.config = fz.config
       /\ G.value.unknown_words_replacement_string = fz.unknown_words_replacement_string
       /\ \A U \in TransformQueries : transform(G.value, U) = transform(fz, U)

\* C2: when fit runs on a non-empty corpus and some column has a p-value
\* below the threshold, the selected indices are, ascending and without
\* duplicates, exactly the columns below the threshold that are not a stop
\* word with a p-value above half the threshold.
C2_SelectionBelowThreshold ==
  (FitReturnedSelf /\ SomeBelowThreshold) =>
    /\ StrictlyAscending(BestFeatures)
    /\ Range(BestFeatures) =
         {i \in DOMAIN ChiPValues : ChiPValues[i] < fz.pvalue_threshold} \ DemotedColumns

\* A fit that demotes one stop word, keeps another at half the threshold and
\* keeps a column that is no stop word.
C2_Witness ==
  /\ FitReturnedSelf /\ SomeBelowThreshold
  /\ \E i \in DemotedColumns :
       ChiPValues[i] < fz.pvalue_threshold /\ i \notin Range(BestFeatures)
  /\ \E j \in Range(BestFeatures) :
       IsStopWordColumn(j) /\ 2 * ChiPValues[j] = fz.pvalue_threshold
  /\ \E k \in Range(BestFeatures) : ~IsStopWordColumn(k)

\* C3, as claimed: when no column has a p-value below the threshold, the
\* selected set is exactly the set of columns of minimum p-value, and is never
\* empty.
C3_FallbackIsMinimum ==
  (FitReturnedSelf /\ ~SomeBelowThreshold) =>
    /\ Range(BestFeatures) = MinimumColumns
    /\ BestFeatures # <<>>

\* C3, amended: when no column has a p-value below the threshold, the
\* selected indices are, ascending, the columns of minimum p-value that are
\* not a stop word with a p-value above half the threshold.
C3_FallbackMinusStopWords ==
  (FitReturnedSelf /\ ~SomeBelowThreshold) =>
    /\ StrictlyAscending(BestFeatures)
    /\ Range(BestFeatures) = MinimumColumns \ DemotedColumns

\* A fallback that leaves out a column above the minimum, drops a stop word
\* of minimum p-value and still selects a column.
C3_Witness ==
  /\ FitReturnedSelf /\ ~SomeBelowThreshold
  /\ MinimumColumns # DOMAIN ChiPValues
  /\ \E i \in MinimumColumns : IsStopWordColumn(i) /\ i \notin Range(BestFeatures)
  /\ BestFeatures # <<>>

TokenizesToNothing(query) == Join(tokenize_light(query, fz.language), <<>>) = <<>>

C5_FromDictAbortsOnMismatch ==
  (result.op = "from_dict" /\ result.raised = "") =>
    LET vectorizer == result.value.tfidf_vectorizer
    IN \/ IsNone(vectorizer.vocabulary_) /\ IsNone(vectorizer._tfidf._idf_diag)
       \/ /\ ~IsNone(vectorizer.vocabulary_) /\ ~IsNone(vectorizer._tfidf._idf_diag)
          /\ Len(Val(vectorizer._tfidf._idf_diag))
               = Cardinality(DOMAIN Val(vectorizer.vocabulary_))

NonBuiltinEntityNames(dataset) == {e \in DOMAIN dataset.entities : ~is_builtin_entity(e)}
EntitiesWithKey(dataset, language, key) ==
  {e \in NonBuiltinEntityNames(dataset) :
     \E u \in dataset.entities[e] : _normalize_stem(u, language) = key}
PseudoToken(entity_name, language) ==
  <<"e", "n", "t", "i", "t", "y", "f", "e", "a", "t", "u", "r", "e">>
    \o Join(tokenize_light(entity_name, language), <<>>)
ExpectedLexiconKeys(dataset, language, sentinel) ==
  {_normalize_stem(u, language) :
     u \in UNION {dataset.entities[e] : e \in NonBuiltinEntityNames(dataset)}}
    \ (IF IsNone(sentinel) THEN {} ELSE {Val(sentinel)})

\* C6: after any call to fit, short-circuited or not, the keys of the entity
\* lexicon are the normalized and stemmed example utterances of the
\* non-builtin entities of the dataset, less the unknown-word sentinel when
\* there is one, and each key maps to the pseudo-tokens 'entityfeature' +
\* concatenated name tokens of all the non-builtin entities with an example
\* that normalizes to it; builtin entities contribute nothing.
C6_EntityLexicon ==
  result.op \in {"fit", "fit_transform"} =>
    LET dataset == Val(lastFit).dataset
        keys == ExpectedLexiconKeys(dataset, fz.language,
                                    fz.unknown_words_replacement_string)
    IN /\ ~IsNone(fz.entity_utterances_to_feature_names)
       /\ DOMAIN Val(fz.entity_utterances_to_feature_names) = keys
       /\ \A key \in keys :
            Val(fz.entity_utterances_to_feature_names)[key] =
              {PseudoToken(e, fz.language) :
                 e \in EntitiesWithKey(dataset, fz.language, key)}
       /\ ~IsNone(fz.unknown_words_replacement_string) =>
            Val(fz.unknown_words_replacement_string)
              \notin DOMAIN Val(fz.entity_utterances_to_feature_names)

\* A fit whose dataset has an example that normalizes to the sentinel, and a
\* key that two entities share.
C6_Witness ==
  /\ result.op = "fit"
  /\ ~IsNone(fz.unknown_words_replacement_string)
  /\ \E e \in NonBuiltinEntityNames(Val(lastFit).dataset) :
       \E u \in Val(lastFit).dataset.entities[e] :
         _normalize_stem(u, fz.language) = Val(fz.unknown_words_replacement_string)
  /\ \E key \in DOMAIN Val(fz.entity_utterances_to_feature_names) :
       Cardinality(Val(fz.entity_utterances_to_feature_names)[key]) = 2

NGramOccurrences(tokens) ==
  {o \in (1..Len(tokens)) \X (1..Len(tokens)) : o[1] <= o[2]}
NGramAt(tokens, o) == Join(SubSeq(tokens, o[1], o[2]), <<" ">>)
RECURSIVE Repeat(_, _)
Repeat(x, n) == IF n = 0 THEN <<>> ELSE <<x>> \o Repeat(x, n - 1)
RECURSIVE Flatten(_)
Flatten(seqs) == IF seqs = <<>> THEN <<>> ELSE Head(seqs) \o Flatten(Tail(seqs))
\* The members of S in order, each as many times as count says.
SortedBag(S, count(_)) ==
  Flatten([k \in 1..Cardinality(S) |-> Repeat(SortedSet(S)[k], count(SortedSet(S)[k]))])
Block(items) == IF items = <<>> THEN <<>> ELSE <<" ">> \o Join(items, <<" ">>)

ExpectedPreprocessed(query) ==
  LET language == fz.language
      lexicon == IF IsNone(fz.entity_utterances_to_feature_names) THEN <<>>
                 ELSE Val(fz.entity_utterances_to_feature_names)
      raw == tokenize_light(query, language)
      tokens == [i \in 1..Len(raw) |-> _normalize_stem(raw[i], language)]
      occurrences == NGramOccurrences(raw)
      entityCount(f) ==
        Cardinality({o \in occurrences :
                       /\ NGramAt(tokens, o) \in DOMAIN lexicon
                       /\ f \in lexicon[NGramAt(tokens, o)]})
      configured == language \in DOMAIN clusters
      cluster == get_word_clusters(language)[clusters[language]]
      labels == IF configured THEN {cluster[k] : k \in DOMAIN cluster} ELSE {}
      clusterCount(c) ==
        Cardinality({o \in occurrences :
                       /\ Lower(NGramAt(raw, o)) \in DOMAIN cluster
                       /\ cluster[Lower(NGramAt(raw, o))] = c})
  IN Join(tokens, IF language = "ja" THEN <<>> ELSE <<" ">>)
       \o Block(SortedBag(UNION {lexicon[k] : k \in DOMAIN lexicon}, entityCount))
       \o Block(SortedBag(labels, clusterCount))

\* C7: every preprocessed string is the normalized and stemmed tokens joined
\* by the language's separator, then, if there are any, a space and the
\* sorted entity pseudo-tokens (all those of every n-gram occurrence of the
\* normalized tokens that is a lexicon key, none for other n-grams), then, if
\* there are any, a space and the sorted cluster labels of the lower-cased
\* n-grams of the raw tokens (none for a language with no cluster configured).
C7_PreprocessedString ==
  (result.op = "preprocess_queries" /\ result.raised = "") =>
    /\ Len(result.value) = Len(result.queries)
    /\ \A i \in 1..Len(result.queries) :
         result.value[i] = ExpectedPreprocessed(result.queries[i])

\* A query with an n-gram that is a key of two pseudo-tokens, an upper-cased
\* token in a cluster and an n-gram in neither.
C7_Witness ==
  /\ result.op = "preprocess_queries" /\ result.raised = ""
  /\ fz.language \in DOMAIN clusters
  /\ ~IsNone(fz.entity_utterances_to_feature_names)
  /\ \E i \in 1..Len(result.queries) :
       LET raw == tokenize_light(result.queries[i], fz.language)
           lexicon == Val(fz.entity_utterances_to_feature_names)
           cluster == get_word_clusters(fz.language)[clusters[fz.language]]
       IN /\ \E k \in 1..Len(raw) :
               /\ _normalize_stem(raw[k], fz.language) \in DOMAIN lexicon
               /\ Cardinality(lexicon[_normalize_stem(raw[k], fz.language)]) = 2
          /\ \E k \in 1..Len(raw) :
               raw[k] # Lower(raw[k]) /\ Lower(raw[k]) \in DOMAIN cluster
          /\ \E o \in NGramOccurrences(raw) :
               /\ NGramAt([k \in 1..Len(raw) |-> _normalize_stem(raw[k], fz.language)], o)
                    \notin DOMAIN lexicon
               /\ Lower(NGramAt(raw, o)) \notin DOMAIN cluster
          /\ result.value[i] # Join(raw, <<" ">>)

\* C8: in every state reached from a constructed Featurizer by fit,
\* transform, to_dict and from_dict of its own snapshots, vocabulary and IDF
\* weights are both absent or both present with as many entries, and selected
\* indices, when present, are column indices of the vocabulary.
C8_StateConsistent ==
  /\ IsNone(fz.tfidf_vectorizer.vocabulary_) <=> IsNone(fz.tfidf_vectorizer._tfidf._idf_diag)
  /\ ~IsNone(fz.tfidf_vectorizer.vocabulary_) =>
       Len(Val(fz.tfidf_vectorizer._tfidf._idf_diag)) = VocabularySize
  /\ ~IsNone(fz.best_features) =>
       /\ ~IsNone(fz.tfidf_vectorizer.vocabulary_)
       /\ \A k \in 1..Len(BestFeatures) :
            0 <= BestFeatures[k] /\ BestFeatures[k] < VocabularySize

\* The instance rebuilt from its own snapshot is in use, fitted, with a
\* selection that is neither empty nor the whole vocabulary.
C8_Witness ==
  /\ result.op = "from_dict" /\ result.raised = "" /\ result.value = fz
  /\ ~IsNone(fz.tfidf_vectorizer.vocabulary_)
  /\ ~IsNone(fz.best_features)
  /\ 0 < Len(BestFeatures) /\ Len(BestFeatures) < VocabularySize

\* C9: after any sequence of fit calls on one instance, its vocabulary, IDF
\* weights, selected indices and entity lexicon are those the arguments of
\* the last fit call determine: what that call leaves in a newly constructed
\* instance.
C9_RefitReplaces ==
  result.op = "fit" =>
    LET last == Val(lastFit)
        new == FitLexicon(Featurizer(fz.language, fz.unknown_words_replacement_string,
                                     fz.config, None, None, None, fz.pvalue_threshold),
                          last.dataset)
        empty == \A i \in 1..Len(last.queries) : TokenizesToNothing(last.queries[i])
        fitted == IF empty THEN new ELSE FitVectorizer(new, last.queries)
    IN /\ fz.entity_utterances_to_feature_names = new.entity_utterances_to_feature_names
       /\ fz.tfidf_vectorizer.vocabulary_ = fitted.tfidf_vectorizer.vocabulary_
       /\ fz.tfidf_vectorizer._tfidf._idf_diag = fitted.tfidf_vectorizer._tfidf._idf_diag
       /\ empty => IsNone(fz.best_features)

\* C10: fit_transform raises no error, whatever the corpus.
C10_FitTransformRaisesNothing ==
  result.op = "fit_transform" => result.raised = ""

=============================================================================
